---- MODULE Spec2Model ----
(***************************************************************************)
(* A model of scripts/mk2bash.py: main() checks the argument count and    *)
(* calls convert_make_to_bash(), which reads the Make file, prints a      *)
(* fixed header and then one NAME=value line per NAME := value line.      *)
(*                                                                         *)
(* A text is a sequence of one-character strings.  Standard output is the  *)
(* sequence of the lines print() wrote, standard error the sequence of the *)
(* messages written to it.                                                 *)
(***************************************************************************)
EXTENDS Naturals, Sequences, FiniteSets

VARIABLES argv, fs, pc, make_file, opens, content, lines, i, stdout, stderr, exitcode

vars == <<argv, fs, pc, make_file, opens, content, lines, i, stdout, stderr, exitcode>>

(***************************************************************************)
(* Bounds of the model.                                                    *)
(***************************************************************************)
\* the most command-line arguments after the program name
MaxArgs == 2
\* the most lines of a document made of sample lines
MaxLines == 3
\* the longest document over TextChars
MaxTextLen == 4
\* the most pieces of a value of the one-line documents NAME := value
MaxValParts == 4

(***************************************************************************)
(* Characters.                                                             *)
(***************************************************************************)
\* str.strip() and the pattern's \s: the whitespace that can stand in a line
Whitespace == {" ", "\t"}

\* the character class [A-Z_]
NameChars ==
    {"A", "B", "C", "D", "E", "F", "G", "H", "I", "J", "K", "L", "M",
     "N", "O", "P", "Q", "R", "S", "T", "U", "V", "W", "X", "Y", "Z", "_"}

\* all texts over the characters cs of length at most n
Texts(cs, n) == UNION {[1..k -> cs] : k \in 0..n}

Drop(s, n) == SubSeq(s, n + 1, Len(s))

(***************************************************************************)
(* str.split('\n'): the pieces between the newlines; a text without a      *)
(* newline is one piece, the empty text included.                          *)
(***************************************************************************)
RECURSIVE SplitFrom(_, _, _)
SplitFrom(s, p, cur) ==
    IF p > Len(s) THEN <<cur>>
    ELSE IF s[p] = "\n" THEN <<cur>> \o SplitFrom(s, p + 1, <<>>)
    ELSE SplitFrom(s, p + 1, Append(cur, s[p]))

\* a variant: str.split() without a separator, which splits at every run of
\* whitespace and keeps no empty piece
RECURSIVE SplitWsFrom(_, _, _)
SplitWsFrom(s, p, cur) ==
    IF p > Len(s) THEN (IF cur = <<>> THEN <<>> ELSE <<cur>>)
    ELSE IF s[p] \in {" ", "\t", "\n"}
         THEN (IF cur = <<>> THEN <<>> ELSE <<cur>>) \o SplitWsFrom(s, p + 1, <<>>)
         ELSE SplitWsFrom(s, p + 1, Append(cur, s[p]))

SplitAtWhitespace(s) == SplitWsFrom(s, 1, <<>>)

Split(s) == SplitFrom(s, 1, <<>>)

(***************************************************************************)
(* str.strip(): the text without its leading and trailing whitespace.      *)
(***************************************************************************)
RECURSIVE LStrip(_)
LStrip(s) ==
    IF s # <<>> /\ s[1] \in Whitespace THEN LStrip(Tail(s)) ELSE s

RECURSIVE RStrip(_)
RStrip(s) ==
    IF s # <<>> /\ s[Len(s)] \in Whitespace
    THEN RStrip(SubSeq(s, 1, Len(s) - 1)) ELSE s

Strip(s) == RStrip(LStrip(s))

\* line.strip().startswith('#') or not line.strip()
IsSkipped(line) ==
    LET t == Strip(line) IN (t # <<>> /\ t[1] = "#") \/ t = <<>>

(***************************************************************************)
(* re.match of the pattern ^([A-Z_]+)\s*:=\s*(REST)$, REST any run of     *)
(* characters, as the backtracking matcher runs it: the longest [A-Z_]+    *)
(* and then the longest whitespace run after which the rest of the pattern *)
(* matches.  REST takes what is left: a line holds no newline.             *)
(***************************************************************************)
\* the length of the longest prefix of s made of characters of cs
RECURSIVE RunLen(_, _)
RunLen(s, cs) ==
    IF s # <<>> /\ s[1] \in cs THEN 1 + RunLen(Tail(s), cs) ELSE 0

\* a variant: the colon optional, as in the pattern :?=
StartsAssignOrEquals(s) ==
    \/ Len(s) >= 2 /\ s[1] = ":" /\ s[2] = "="
    \/ Len(s) >= 1 /\ s[1] = "="

\* s starts with the literal :=
StartsAssign(s) == Len(s) >= 2 /\ s[1] = ":" /\ s[2] = "="

\* \s*:= at the start of s: the lengths w of \s* that let := follow
AssignAt(s) == {w \in 0..RunLen(s, Whitespace) : StartsAssign(Drop(s, w))}

\* the name lengths n >= 1 after which \s*:= matches
NameEnds(s) == {n \in 1..RunLen(s, NameChars) : AssignAt(Drop(s, n)) # {}}

Max(S) == CHOOSE x \in S : \A y \in S : y <= x

NoMatch == [ok |-> FALSE, name |-> <<>>, value |-> <<>>]

ReMatch(s) ==
    IF NameEnds(s) = {} THEN NoMatch
    ELSE LET n    == Max(NameEnds(s))
             w    == Max(AssignAt(Drop(s, n)))
             rest == Drop(s, n + w + 2)
         IN  [ok    |-> TRUE,
              name  |-> SubSeq(s, 1, n),
              value |-> Drop(rest, RunLen(rest, Whitespace))]

(***************************************************************************)
(* re.sub(r'\$\(([^)]+)\)', r'${\1}', v): the matches are found from left  *)
(* to right and do not overlap.  At p the pattern matches when $( stands   *)
(* there, the next character is not ) and a ) follows later; [^)]+ runs to *)
(* the first ).                                                            *)
(***************************************************************************)
\* the index of the first ) of v at or after p, 0 when there is none
RECURSIVE FirstClose(_, _)
FirstClose(v, p) ==
    IF p > Len(v) THEN 0
    ELSE IF v[p] = ")" THEN p
    ELSE FirstClose(v, p + 1)

\* the end of the match of \$\(([^)]+)\) starting at p, 0 when there is none
MatchEnd(v, p) ==
    IF p + 1 <= Len(v) /\ v[p] = "$" /\ v[p + 1] = "("
    THEN LET q == FirstClose(v, p + 2) IN IF q > p + 2 THEN q ELSE 0
    ELSE 0

\* the replacement ${\1} of a match whose group 1 is x
Replacement(x) == <<"$", "{">> \o x \o <<"}">>

\* a variant: only the first match is replaced, as with count=1
RECURSIVE SubFirstFrom(_, _)
SubFirstFrom(v, p) ==
    IF p > Len(v) THEN <<>>
    ELSE LET q == MatchEnd(v, p)
         IN  IF q = 0 THEN <<v[p]>> \o SubFirstFrom(v, p + 1)
             ELSE Replacement(SubSeq(v, p + 2, q - 1)) \o Drop(v, q)

ReSubFirstOnly(v) == SubFirstFrom(v, 1)

RECURSIVE SubFrom(_, _)
SubFrom(v, p) ==
    IF p > Len(v) THEN <<>>
    ELSE LET q == MatchEnd(v, p)
         IN  IF q = 0 THEN <<v[p]>> \o SubFrom(v, p + 1)
             ELSE Replacement(SubSeq(v, p + 2, q - 1)) \o SubFrom(v, q + 1)

ReSub(v) == SubFrom(v, 1)

(***************************************************************************)
(* What the program prints.                                                *)
(***************************************************************************)
\* "# Generated from config.mk - DO NOT EDIT DIRECTLY"
HeaderLine1 ==
    <<"#", " ", "G", "e", "n", "e", "r", "a", "t", "e", "d", " ", "f", "r", "o", "m",
      " ", "c", "o", "n", "f", "i", "g", ".", "m", "k", " ", "-", " ", "D", "O", " ",
      "N", "O", "T", " ", "E", "D", "I", "T", " ", "D", "I", "R", "E", "C", "T", "L", "Y">>

\* "# Edit config.mk instead and run 'make .github/workflows/config.env'"
HeaderLine2 ==
    <<"#", " ", "E", "d", "i", "t", " ", "c", "o", "n", "f", "i", "g", ".", "m", "k",
      " ", "i", "n", "s", "t", "e", "a", "d", " ", "a", "n", "d", " ", "r", "u", "n",
      " ", "'", "m", "a", "k", "e", " ", ".", "g", "i", "t", "h", "u", "b", "/", "w",
      "o", "r", "k", "f", "l", "o", "w", "s", "/", "c", "o", "n", "f", "i", "g", ".",
      "e", "n", "v", "'">>

\* the two comment lines and the empty line of print()
Header == <<HeaderLine1, HeaderLine2, <<>>>>

\* a variant: the value between double quotes
AssignLineQuoted(name, value) == name \o <<"=", "\"">> \o value \o <<"\"">>

\* f"{var_name}={var_value}"
AssignLine(name, value) == name \o <<"=">> \o value

\* the line printed for a matched line: the value goes through re.sub
EmittedLine(m) == AssignLine(m.name, ReSub(m.value))

UsageMsg == <<"Usage: mk2bash.py <make_config_file>">>

NotFoundMsg(path) == <<"Error: Could not find ", path>>

\* what the interpreter writes for an exception nothing catches
Traceback(exc) == <<"Traceback (most recent call last):", exc>>

(***************************************************************************)
(* The environment: the arguments and the file the path names.             *)
(***************************************************************************)
Paths == {"config.mk", "other.mk"}

ProgName == "mk2bash.py"

\* sys.argv: the program name and at most MaxArgs arguments
Argvs == {<<ProgName>> \o a : a \in UNION {[1..k -> Paths] : k \in 0..MaxArgs}}

\* what open(make_file, 'r') and f.read() do with the file: succeed, or raise
OpenErrors == {"FileNotFoundError", "PermissionError", "IsADirectoryError",
               "UnicodeDecodeError"}

FileKinds == {"ok"} \cup OpenErrors

\* the lines of the documents of several lines
SampleLines ==
    { <<"A", ":", "=", "b">>,
      <<"B", "_", " ", ":", "=", " ", "$", "(", "A", ")", "/", "c">>,
      <<"C", ":", "=">>,
      <<"#", " ", "A", ":", "=", "b">>,
      <<" ", "\t">>,
      <<>>,
      <<"t", ":", " ", "d">>,
      <<"A", " ", "=", " ", "b">> }

RECURSIVE JoinLines(_)
JoinLines(ls) ==
    IF ls = <<>> THEN <<>>
    ELSE IF Len(ls) = 1 THEN ls[1]
    ELSE ls[1] \o <<"\n">> \o JoinLines(Tail(ls))

\* the documents of at most MaxLines sample lines
DocContents == {JoinLines(d) : d \in UNION {[1..k -> SampleLines] : k \in 0..MaxLines}}

\* the characters of the short documents, the newline among them
TextChars == {"A", "_", "a", "1", " ", ":", "=", "#", "?", "+", "\n"}

\* every document of at most MaxTextLen characters
TextContents == Texts(TextChars, MaxTextLen)

\* the pieces the values are made of
ValueParts ==
    { <<"$", "(", "A", ")">>, <<"$", "(">>, <<"$", "{">>, <<"$">>, <<"(">>, <<")">>,
      <<"{">>, <<"}">>, <<"A">>, <<" ">> }

RECURSIVE Flatten(_)
Flatten(ps) == IF ps = <<>> THEN <<>> ELSE ps[1] \o Flatten(Tail(ps))

\* the values of at most MaxValParts pieces
Values == {Flatten(ps) : ps \in UNION {[1..k -> ValueParts] : k \in 0..MaxValParts}}

\* what stands before the value
Prefixes == { <<"A", ":", "=">>, <<" ", "A", "_", "\t", ":", "=", " ">> }

\* the one-line documents NAME := value, and the sample lines
ValueContents == {p \o v : p \in Prefixes, v \in Values} \cup SampleLines

(***************************************************************************)
(* The program.                                                            *)
(***************************************************************************)
Init ==
    /\ argv \in Argvs
    /\ fs \in FileKinds
    /\ pc = "main"
    /\ make_file = ""
    /\ opens = 0
    /\ content = <<>>
    /\ lines = <<>>
    /\ i = 0
    /\ stdout = <<>>
    /\ stderr = <<>>
    /\ exitcode = 0

\* a variant: only a missing argument is refused
TooFewArgs == Len(argv) < 2

\* len(sys.argv) != 2
BadArgCount == Len(argv) # 2

\* main(): the usage error
MainUsage ==
    /\ pc = "main"
    /\ BadArgCount
    /\ stderr' = Append(stderr, UsageMsg)
    /\ exitcode' = 1
    /\ pc' = "exited"
    /\ UNCHANGED <<argv, fs, make_file, opens, content, lines, i, stdout>>

\* main(): the call of convert_make_to_bash(sys.argv[1])
MainCall ==
    /\ pc = "main"
    /\ ~BadArgCount
    /\ make_file' = argv[2]
    /\ pc' = "convert"
    /\ UNCHANGED <<argv, fs, opens, content, lines, i, stdout, stderr, exitcode>>

\* a variant: no except clause
CaughtNone == {}

\* the exceptions the try statement catches
Caught == {"FileNotFoundError"}

\* open() raises FileNotFoundError: the message and sys.exit(1)
OpenNotFound ==
    /\ pc = "convert"
    /\ fs \in OpenErrors
    /\ fs \in Caught
    /\ opens' = opens + 1
    /\ stderr' = Append(stderr, NotFoundMsg(make_file))
    /\ exitcode' = 1
    /\ pc' = "exited"
    /\ UNCHANGED <<argv, fs, make_file, content, lines, i, stdout>>

\* open() or read() raises an exception the try statement does not catch
OpenUncaught ==
    /\ pc = "convert"
    /\ fs \in OpenErrors
    /\ fs \notin Caught
    /\ opens' = opens + 1
    /\ stderr' = Append(stderr, Traceback(fs))
    /\ exitcode' = 1
    /\ pc' = "exited"
    /\ UNCHANGED <<argv, fs, make_file, content, lines, i, stdout>>

\* a variant: the print() of the empty line is missing
AfterReadNoBlank(out) == out \o <<HeaderLine1, HeaderLine2>>

\* what standard output holds once the file is read
AfterRead(out) == out \o Header

\* the file is read, the header printed and the content split
ReadAndHeader(contents) ==
    /\ pc = "convert"
    /\ fs = "ok"
    /\ opens' = opens + 1
    /\ \E c \in contents : content' = c /\ lines' = Split(c)
    /\ stdout' = AfterRead(stdout)
    /\ i' = 1
    /\ pc' = "loop"
    /\ UNCHANGED <<argv, fs, make_file, stderr, exitcode>>

\* a variant: break in the place of continue
AfterBreak(k, n) == n + 1

\* where the loop goes on after a line that prints nothing
AfterContinue(k, n) == k + 1

\* the loop: a comment or an empty line
SkipLine ==
    /\ pc = "loop"
    /\ i <= Len(lines)
    /\ IsSkipped(lines[i])
    /\ i' = AfterContinue(i, Len(lines))
    /\ UNCHANGED <<argv, fs, pc, make_file, opens, content, lines, stdout, stderr, exitcode>>

\* the loop: a line the pattern does not match
DropLine ==
    /\ pc = "loop"
    /\ i <= Len(lines)
    /\ ~IsSkipped(lines[i])
    /\ ~ReMatch(Strip(lines[i])).ok
    /\ i' = AfterContinue(i, Len(lines))
    /\ UNCHANGED <<argv, fs, pc, make_file, opens, content, lines, stdout, stderr, exitcode>>

\* the loop: an assignment
EmitLine ==
    /\ pc = "loop"
    /\ i <= Len(lines)
    /\ ~IsSkipped(lines[i])
    /\ ReMatch(Strip(lines[i])).ok
    /\ stdout' = Append(stdout, EmittedLine(ReMatch(Strip(lines[i]))))
    /\ i' = i + 1
    /\ UNCHANGED <<argv, fs, pc, make_file, opens, content, lines, stderr, exitcode>>

\* the loop is over: the function and main() return
Return ==
    /\ pc = "loop"
    /\ i > Len(lines)
    /\ pc' = "exited"
    /\ UNCHANGED <<argv, fs, make_file, opens, content, lines, i, stdout, stderr, exitcode>>

Step(contents) ==
    \/ MainUsage
    \/ MainCall
    \/ OpenNotFound
    \/ OpenUncaught
    \/ ReadAndHeader(contents)
    \/ SkipLine
    \/ DropLine
    \/ EmitLine
    \/ Return

\* documents of several sample lines
Next == Step(DocContents)

Spec == Init /\ [][Next]_vars

\* every short document
NextText == Step(TextContents)

SpecText == Init /\ [][NextText]_vars

\* one-line documents NAME := value
NextValue == Step(ValueContents)

SpecValue == Init /\ [][NextValue]_vars

(***************************************************************************)
(* The properties.                                                         *)
(***************************************************************************)
\* the program has ended
Exited == pc = "exited"

\* the call was made with exactly one argument
OneArg == Len(argv) = 2

\* C7: with any number of arguments other than one the program writes the
\* usage message to standard error, ends with a non-zero status, never opens
\* a file and writes nothing to standard output.
C7_UsageError ==
    ~OneArg =>
        /\ opens = 0
        /\ pc \in {"main", "exited"}
        /\ stdout = <<>>
        /\ Exited => stderr = <<UsageMsg>> /\ exitcode # 0

\* a run with two arguments has ended
C7_Witness == Exited /\ Len(argv) = 3 /\ stderr = <<UsageMsg>>

\* C5: with one argument naming a file that does not exist the program writes
\* Error: Could not find <path> to standard error, ends with a non-zero
\* status and writes nothing to standard output, the header included.
C5_MissingFile ==
    (OneArg /\ fs = "FileNotFoundError") =>
        /\ stdout = <<>>
        /\ Exited => /\ stderr = <<<<"Error: Could not find ", argv[2]>>>>
                     /\ exitcode # 0
                     /\ opens = 1

\* a run on a missing file has ended
C5_Witness ==
    Exited /\ OneArg /\ fs = "FileNotFoundError" /\ argv[2] = "other.mk" /\ opens = 1

\* C6: when the file exists but cannot be opened or read, the program fails
\* as for a missing file: Error: Could not find <path> on standard error, a
\* non-zero status, nothing on standard output.
C6_UnreadableFile ==
    (Exited /\ OneArg /\ fs \in OpenErrors \ {"FileNotFoundError"}) =>
        /\ stderr = <<<<"Error: Could not find ", argv[2]>>>>
        /\ exitcode # 0
        /\ stdout = <<>>

\* a line of the form NAME=..., NAME a non-empty run of [A-Z_]
IsAssignmentLine(l) ==
    \E n \in 1..Len(l) :
        /\ \A j \in 1..n : l[j] \in NameChars
        /\ n < Len(l)
        /\ l[n + 1] = "="

\* C8: standard output is empty, or starts with the two header lines and an
\* empty line, which come once and before every assignment line, with
\* nothing but assignment lines after them; once the header is out nothing
\* fails: a run that wrote to standard output ends with status 0.
C8_HeaderOnceThenAssignments ==
    \/ stdout = <<>>
    \/ /\ Len(stdout) >= 3
       /\ SubSeq(stdout, 1, 3) = Header
       /\ \A k \in 4..Len(stdout) :
              IsAssignmentLine(stdout[k]) /\ stdout[k] \notin {HeaderLine1, HeaderLine2, <<>>}
       /\ stderr = <<>>
       /\ exitcode = 0
       /\ pc \in {"loop", "exited"}
       /\ pc = "loop" => i \in 1..(Len(lines) + 1)

\* a run that printed the header and two assignments has ended
C8_Witness == Exited /\ Len(stdout) = 5 /\ exitcode = 0

(***************************************************************************)
(* The lines of the content, read off the places of its newlines.          *)
(***************************************************************************)
NewlinesIn(c) == {p \in 1..Len(c) : c[p] = "\n"}

InputLineCount(c) == Cardinality(NewlinesIn(c)) + 1

\* the place of the k-th newline of c; 0 for k = 0, Len(c) + 1 past the last
NewlineAt(c, k) ==
    IF k = 0 THEN 0
    ELSE IF k > Cardinality(NewlinesIn(c)) THEN Len(c) + 1
    ELSE CHOOSE p \in NewlinesIn(c) : Cardinality({q \in NewlinesIn(c) : q <= p}) = k

InputLine(c, k) == SubSeq(c, NewlineAt(c, k - 1) + 1, NewlineAt(c, k) - 1)

\* the file has been read
HasRead == pc \in {"loop", "exited"} /\ fs = "ok" /\ opens = 1

\* the input lines, among the first n, that match the assignment pattern
MatchedUpTo(c, n) == {k \in 1..n : ReMatch(Strip(InputLine(c, k))).ok}

\* C2: the assignment lines after the header stand one to one, in the same
\* order, for the input lines that match the assignment pattern: the k-th
\* one is the rewriting of the k-th matching line, none is lost or doubled,
\* and no other line is written.
C2_StableFilter ==
    HasRead =>
        LET n    == InputLineCount(content)
            done == IF Exited THEN n ELSE i - 1
            M    == MatchedUpTo(content, done)
        IN  /\ i \in 1..(n + 1)
            /\ Exited => i = n + 1
            /\ Len(stdout) = 3 + Cardinality(M)
            /\ \A k \in M :
                   stdout[3 + Cardinality({j \in M : j <= k})]
                       = EmittedLine(ReMatch(Strip(InputLine(content, k))))

\* a run over three lines, the first and the last of them assignments, the
\* second not, has ended
C2_Witness ==
    /\ Exited /\ HasRead
    /\ InputLineCount(content) = 3
    /\ MatchedUpTo(content, 3) = {1, 3}
    /\ InputLine(content, 1) # InputLine(content, 3)
    /\ Len(stdout) = 5

(***************************************************************************)
(* The shape of a line, stated on its characters.                          *)
(***************************************************************************)
IsBlank(c) == c = " " \/ c = "\t"

IsUpperOrUnderscore(c) ==
    c \in {"A", "B", "C", "D", "E", "F", "G", "H", "I", "J", "K", "L", "M",
           "N", "O", "P", "Q", "R", "S", "T", "U", "V", "W", "X", "Y", "Z", "_"}

AllBlank(l, from, to) == \A j \in from..to : IsBlank(l[j])

\* empty or whitespace only, or # as the first character that is not whitespace
BlankOrComment(l) ==
    \/ AllBlank(l, 1, Len(l))
    \/ \E p \in 1..Len(l) : l[p] = "#" /\ AllBlank(l, 1, p - 1)

\* the line being looked at by the loop
Current == InputLine(content, i)

\* the loop is about to look at a line
AtLine == pc = "loop" /\ i <= InputLineCount(content)

\* C3: a line that is empty or whitespace only, or whose first character
\* that is not whitespace is #, writes no line and changes nothing else of
\* the run, which goes on with the next line; so also when NAME := value
\* follows the #.
C3_CommentsAndBlanksSkipped ==
    [][(AtLine /\ BlankOrComment(Current)) =>
         /\ i' = i + 1
         /\ UNCHANGED <<argv, fs, pc, make_file, opens, content, lines,
                        stdout, stderr, exitcode>>]_vars

\* the comment #A:= has been passed, nothing written, and more follows
C3_Witness ==
    /\ pc = "loop" /\ i = 2
    /\ InputLine(content, 1) = <<"#", "A", ":", "=">>
    /\ stdout = Header

\* l, leading whitespace aside, is NAME, whitespace, := and anything
HasAssignShape(l) ==
    \E a \in 0..Len(l) :
        /\ AllBlank(l, 1, a)
        /\ \E n \in (a + 1)..Len(l) :
               /\ \A j \in (a + 1)..n : IsUpperOrUnderscore(l[j])
               /\ \E b \in n..(Len(l) - 2) :
                      /\ AllBlank(l, n + 1, b)
                      /\ l[b + 1] = ":"
                      /\ l[b + 2] = "="

\* lines of the kinds the pattern is not meant for: the operators =, ?= and
\* +=, a rule, a name with a lowercase letter or a digit
OtherKinds ==
    { <<"A", "=", "a">>, <<"A", " ", "=", "a">>, <<"A", "?", "=", "a">>,
      <<"A", "+", "=", "a">>, <<"a", ":", " ", "a">>, <<"a", ":", "=", "1">>,
      <<"A", "a", ":", "=">>, <<"A", "1", ":", "=">>, <<"1", ":", "=">> }

\* C4: a line that is not blank, not a comment and not of the shape NAME,
\* whitespace, :=, rest is dropped in silence: nothing is written to
\* standard output or standard error and the exit status stays.  The lines
\* of OtherKinds are among them.
C4_OtherLinesDropped ==
    [][(AtLine /\ ~BlankOrComment(Current)
          /\ (~HasAssignShape(Current) \/ Current \in OtherKinds)) =>
         /\ i' = i + 1
         /\ UNCHANGED <<pc, stdout, stderr, exitcode>>]_vars

\* the line A?=a has been passed and nothing written
C4_Witness ==
    /\ pc = "loop" /\ i = 2
    /\ InputLine(content, 1) = <<"A", "?", "=", "a">>
    /\ stdout = Header /\ stderr = <<>> /\ exitcode = 0

(***************************************************************************)
(* The rewriting of a value, stated on its characters.                     *)
(***************************************************************************)
\* v holds no ) from from to to
NoClose(v, from, to) == \A j \in from..to : v[j] # ")"

\* a Make reference starts at p: $(, a character other than ), and a ) later
RefAt(v, p) ==
    /\ p + 2 <= Len(v)
    /\ v[p] = "$" /\ v[p + 1] = "(" /\ v[p + 2] # ")"
    /\ \E q \in (p + 3)..Len(v) : v[q] = ")"

\* v holds a Make reference: $(, one or more characters other than ), and )
HasMakeRef(v) == \E p \in 1..Len(v) : RefAt(v, p)

\* w has { where v has the ( at j
Opened(v, w, j) == v[j] = "(" /\ w[j] = "{"

\* w has } where v has the ) at j
Closed(v, w, j) == v[j] = ")" /\ w[j] = "}"

\* w is v with every $(X) turned into ${X}, X a non-empty run of characters
\* other than ), and every other character as it was
RewriteOf(v, w) ==
    /\ Len(w) = Len(v)
    /\ \A j \in 1..Len(v) :
          \/ w[j] = v[j]
          \/ Opened(v, w, j) /\ j > 1 /\ v[j - 1] = "$"
          \/ Closed(v, w, j)
    \* the ( and the ) of a reference are turned together, X as it was
    /\ \A j \in 1..Len(v) :
          Opened(v, w, j) =>
              \E q \in (j + 2)..Len(v) :
                  Closed(v, w, q) /\ NoClose(v, j + 1, q - 1) /\ w[j - 1] = "$"
    /\ \A q \in 1..Len(v) :
          Closed(v, w, q) =>
              \E j \in 2..(q - 2) : Opened(v, w, j) /\ NoClose(v, j + 1, q - 1)
    \* no reference is left out, but for one that stands inside the X of
    \* another, which is kept as it was
    /\ \A p \in 1..Len(v) :
          RefAt(v, p) =>
              \/ Opened(v, w, p + 1)
              \/ \E j \in 2..p : Opened(v, w, j) /\ NoClose(v, j + 1, p + 1)

\* the place of the last character of l that is not whitespace, 0 if none
LastInk(l) ==
    IF AllBlank(l, 1, Len(l)) THEN 0
    ELSE CHOOSE e \in 1..Len(l) : ~IsBlank(l[e]) /\ AllBlank(l, e + 1, Len(l))

C9_NoMakeRefLeft ==
    \A k \in 4..Len(stdout) : ~HasMakeRef(stdout[k])

\* a $( stands between a $( of v and the next )
HasNestedRef(v) ==
    \E p \in 1..Len(v) :
        /\ p + 1 <= Len(v) /\ v[p] = "$" /\ v[p + 1] = "("
        /\ \E q \in (p + 2)..Len(v) :
               /\ v[q] = ")" /\ NoClose(v, p + 2, q - 1)
               /\ \E r \in (p + 2)..(q - 2) : v[r] = "$" /\ v[r + 1] = "("

\* the lines read so far
LinesDone == IF Exited THEN InputLineCount(content) ELSE i - 1

\* C10: on a value without nested references the substitution is idempotent:
\* a second run on its own output changes nothing; so also when the value
\* holds the text ${...} or the empty reference $().
C10_SubIdempotent ==
    HasRead =>
        \A k \in MatchedUpTo(content, LinesDone) :
            LET v == ReMatch(Strip(InputLine(content, k))).value
                o == stdout[3 + Cardinality({j \in MatchedUpTo(content, LinesDone) : j <= k})]
            IN  ~HasNestedRef(v) =>
                    /\ ReSub(ReSub(v)) = ReSub(v)
                    /\ ReSub(o) = o

\* a value with ${ in it, an empty reference and a reference was rewritten
C10_Witness ==
    /\ pc = "loop" /\ i = 2
    /\ InputLine(content, 1) =
           <<"A", ":", "=", "$", "{", "$", "(", ")", "$", "(", "A", ")">>
    /\ stdout = Header \o
           << <<"A", "=", "$", "{", "$", "(", ")", "$", "{", "A", "}">> >>

====
